---- MODULE Spec2Model ----
(***************************************************************************)
(* Rule L065 of sqlfluff: "Set operators should be surrounded by           *)
(* newlines" (src/sqlfluff/rules/L065.py, Rule_L065._eval).                *)
(*                                                                         *)
(* _eval asks the reflow subsystem for the fixes around the set operator,  *)
(* splits them by the working location of their anchors into pre_fixes and *)
(* post_fixes, and returns up to two LintResults, each carrying all fixes. *)
(*                                                                         *)
(* The model runs two invocations of _eval on one RuleContext, statement   *)
(* by statement, so that their steps interleave.                           *)
(*   Spec        : the reflow subsystem is a black box; its answer is any  *)
(*                 bounded list of fixes, or a failure.                    *)
(*   SpecRebreak : the reflow subsystem and the application of a fix are   *)
(*                 modelled from the specification's description of them.  *)
(***************************************************************************)
EXTENDS Integers, Sequences, FiniteSets

\* Working locations are 1..MaxLoc; a list of fixes has at most MaxFixes fixes.
MaxLoc == 3
MaxFixes == 2

Locs == 1..MaxLoc

\* The invocations of _eval the host runs on the context.
Invocations == {"inv1", "inv2"}

(***************************************************************************)
(* Values                                                                  *)
(***************************************************************************)

\* Python's None: an absent pos_marker.
None == [none |-> TRUE]

\* A PositionMarker, as far as _eval reads it: its working_loc.
PositionMarker(loc) == [working_loc |-> loc]

Markers == {PositionMarker(l) : l \in Locs}

\* Truthiness of `x.pos_marker` in `if fix.anchor.pos_marker and ...` and in
\* `assert context.segment.pos_marker`.
Truthy(pos_marker) == pos_marker # None

\* A LintFix, as far as _eval reads it: its anchor's pos_marker.
LintFix(pos_marker) == [edit_type |-> "replace", edit |-> "\n",
                        anchor |-> [pos_marker |-> pos_marker]]

AllFixes == {LintFix(m) : m \in Markers \cup {None}}

RECURSIVE SeqsUpTo(_, _)
SeqsUpTo(S, n) ==
    IF n = 0 THEN {<<>>}
    ELSE LET shorter == SeqsUpTo(S, n - 1)
         IN  shorter \cup {Append(s, x) : s \in {t \in shorter : Len(t) = n - 1}, x \in S}

\* The raw text of a set operator.
Raws == {"UNION ALL", "INTERSECT"}

\* The whitespace run on one side of the set operator.
Gaps == {" ", "\n"}

\* The root segment, as far as the rule is about it: the whitespace runs that
\* flank the set operator.
Roots == [before : Gaps, after : Gaps]

\* The layout configuration handed through to the reflow subsystem.
Configs == {"default"}

\* The answers of ReflowSequence.from_around_target(...).rebreak().get_fixes():
\* a list of fixes, or an exception raised inside the reflow subsystem.
ReflowFixes(fs) == [raises |-> FALSE, fixes |-> fs]
ReflowFailure == [raises |-> TRUE, fixes |-> <<>>]

VARIABLES
    context,     \* the RuleContext: segment, parent_stack, config
    rebreak,     \* what ReflowSequence...rebreak().get_fixes() answers for context
    applied,     \* whether the host has applied a returned fix to the tree
    pc,          \* pc[i]: the statement invocation i is at
    calls,       \* calls[i]: how often invocation i has asked the reflow subsystem
    fixes,       \* the locals of invocation i (<<>> while not yet assigned)
    pre_fixes,
    post_fixes,
    results,
    outcome      \* outcome[i]: what invocation i returned or raised

vars == <<context, rebreak, applied, pc, calls, fixes, pre_fixes, post_fixes,
          results, outcome>>

locals == <<fixes, pre_fixes, post_fixes, results>>

Pending == [kind |-> "pending"]
Returned(value) == [kind |-> "returned", value |-> value]
Raised(exc) == [kind |-> "raised", exc |-> exc]

(***************************************************************************)
(* The expressions of _eval                                                *)
(***************************************************************************)

\* Variants of InPre: the comparison taken as <=, the comparison reversed, and
\* an absent anchor marker taken as lying before everything.
InPre_orEqual(fix, segment) ==
    /\ Truthy(fix.anchor.pos_marker)
    /\ fix.anchor.pos_marker.working_loc <= segment.pos_marker.working_loc

InPre_flipped(fix, segment) ==
    /\ Truthy(fix.anchor.pos_marker)
    /\ fix.anchor.pos_marker.working_loc > segment.pos_marker.working_loc

InPre_markerless(fix, segment) ==
    \/ ~Truthy(fix.anchor.pos_marker)
    \/ fix.anchor.pos_marker.working_loc < segment.pos_marker.working_loc

\* fix.anchor.pos_marker and
\* fix.anchor.pos_marker.working_loc < context.segment.pos_marker.working_loc
InPre(fix, segment) ==
    /\ Truthy(fix.anchor.pos_marker)
    /\ fix.anchor.pos_marker.working_loc < segment.pos_marker.working_loc

\* Variant of InPost: the comparison taken as >=.
InPost_orEqual(fix, segment) ==
    /\ Truthy(fix.anchor.pos_marker)
    /\ fix.anchor.pos_marker.working_loc >= segment.pos_marker.working_loc

\* fix.anchor.pos_marker and
\* fix.anchor.pos_marker.working_loc > context.segment.pos_marker.working_loc
InPost(fix, segment) ==
    /\ Truthy(fix.anchor.pos_marker)
    /\ fix.anchor.pos_marker.working_loc > segment.pos_marker.working_loc

\* Whether a comprehension over fs evaluates context.segment.pos_marker.working_loc:
\* `and` reaches its right operand for a fix whose anchor has a marker.
ReadsTargetLoc(fs) == \E k \in 1..Len(fs) : Truthy(fs[k].anchor.pos_marker)

PreDescription(raw) ==
    "Set operators should be surrounded by newlines. "
        \o "Missing newline before set operator " \o raw \o "."

PostDescription(raw) ==
    "Set operators should be surrounded by newlines. "
        \o "Missing newline after set operator " \o raw \o "."

LintResult(anchor, description, fs) ==
    [anchor |-> anchor, description |-> description, fixes |-> fs]

\* Variant of PreResult: the diagnostic carries pre_fixes only.
PreResult_preOnly(i) ==
    LintResult(context.segment, PreDescription(context.segment.raw), pre_fixes[i])

\* The LintResult appended when pre_fixes is not empty.
PreResult(i) ==
    LintResult(context.segment, PreDescription(context.segment.raw), fixes[i])

\* Variant of PostResult: the diagnostic carries post_fixes only.
PostResult_postOnly(i) ==
    LintResult(context.segment, PostDescription(context.segment.raw), post_fixes[i])

\* The LintResult appended when post_fixes is not empty.
PostResult(i) ==
    LintResult(context.segment, PostDescription(context.segment.raw), fixes[i])

\* Variant of ListAppend: results.insert(0, r).
ListAppend_front(rs, r) == <<r>> \o rs

\* results.append(r)
ListAppend(rs, r) == Append(rs, r)

(***************************************************************************)
(* The statements of _eval, for invocation i                               *)
(***************************************************************************)

Goto(i, label) == pc' = [pc EXCEPT ![i] = label]

Raise(i, exc) ==
    /\ Goto(i, "raised")
    /\ outcome' = [outcome EXCEPT ![i] = Raised(exc)]

\* Variant of Reflow: an exception of the reflow subsystem is caught and _eval
\* goes on with no fixes.
Reflow_fallback(i) ==
    /\ pc[i] = "reflow"
    /\ calls' = [calls EXCEPT ![i] = @ + 1]
    /\ fixes' = [fixes EXCEPT ![i] = rebreak.fixes]
    /\ Goto(i, "assert")
    /\ UNCHANGED <<context, rebreak, applied, pre_fixes, post_fixes, results, outcome>>

\* fixes = ReflowSequence.from_around_target(...).rebreak().get_fixes()
\* An exception of the reflow subsystem is not caught.
Reflow(i) ==
    /\ pc[i] = "reflow"
    /\ calls' = [calls EXCEPT ![i] = @ + 1]
    /\ IF rebreak.raises
       THEN /\ Raise(i, "ReflowError")
            /\ UNCHANGED fixes
       ELSE /\ fixes' = [fixes EXCEPT ![i] = rebreak.fixes]
            /\ Goto(i, "assert")
            /\ UNCHANGED outcome
    /\ UNCHANGED <<context, rebreak, applied, pre_fixes, post_fixes, results>>

\* Variant of AssertMarker: the assert statement does nothing.
AssertMarker_stripped(i) ==
    /\ pc[i] = "assert"
    /\ Goto(i, "pre")
    /\ UNCHANGED <<context, rebreak, applied, calls, locals, outcome>>

\* assert context.segment.pos_marker
AssertMarker(i) ==
    /\ pc[i] = "assert"
    /\ IF Truthy(context.segment.pos_marker)
       THEN Goto(i, "pre") /\ UNCHANGED outcome
       ELSE Raise(i, "AssertionError")
    /\ UNCHANGED <<context, rebreak, applied, calls, locals>>

\* Variant of PreFixes: the list the reflow subsystem returned is filtered in
\* place, so fixes and pre_fixes name the same shortened list.
PreFixes_inPlace(i) ==
    /\ pc[i] = "pre"
    /\ LET Test(fix) == InPre(fix, context.segment)
           kept == SelectSeq(fixes[i], Test)
       IN  /\ pre_fixes' = [pre_fixes EXCEPT ![i] = kept]
           /\ fixes' = [fixes EXCEPT ![i] = kept]
    /\ Goto(i, "post")
    /\ UNCHANGED <<context, rebreak, applied, calls, post_fixes, results, outcome>>

\* pre_fixes = [fix for fix in fixes if ...]
\* Reading .working_loc of an absent marker raises AttributeError (not reached
\* while the assert before it stands).
PreFixes(i) ==
    /\ pc[i] = "pre"
    /\ IF ReadsTargetLoc(fixes[i]) /\ ~Truthy(context.segment.pos_marker)
       THEN /\ Raise(i, "AttributeError")
            /\ UNCHANGED pre_fixes
       ELSE /\ LET Test(fix) == InPre(fix, context.segment)
               IN  pre_fixes' = [pre_fixes EXCEPT ![i] = SelectSeq(fixes[i], Test)]
            /\ Goto(i, "post")
            /\ UNCHANGED outcome
    /\ UNCHANGED <<context, rebreak, applied, calls, fixes, post_fixes, results>>

\* post_fixes = [fix for fix in fixes if ...]
PostFixes(i) ==
    /\ pc[i] = "post"
    /\ IF ReadsTargetLoc(fixes[i]) /\ ~Truthy(context.segment.pos_marker)
       THEN /\ Raise(i, "AttributeError")
            /\ UNCHANGED post_fixes
       ELSE /\ LET Test(fix) == InPost(fix, context.segment)
               IN  post_fixes' = [post_fixes EXCEPT ![i] = SelectSeq(fixes[i], Test)]
            /\ Goto(i, "results")
            /\ UNCHANGED outcome
    /\ UNCHANGED <<context, rebreak, applied, calls, fixes, pre_fixes, results>>

\* results = []
InitResults(i) ==
    /\ pc[i] = "results"
    /\ results' = [results EXCEPT ![i] = <<>>]
    /\ Goto(i, "if_pre")
    /\ UNCHANGED <<context, rebreak, applied, calls, fixes, pre_fixes, post_fixes,
                   outcome>>

\* if pre_fixes: results.append(LintResult(...))
AppendPre(i) ==
    /\ pc[i] = "if_pre"
    /\ IF pre_fixes[i] # <<>>
       THEN results' = [results EXCEPT ![i] = ListAppend(@, PreResult(i))]
       ELSE UNCHANGED results
    /\ Goto(i, "if_post")
    /\ UNCHANGED <<context, rebreak, applied, calls, fixes, pre_fixes, post_fixes,
                   outcome>>

\* if post_fixes: results.append(LintResult(...))
AppendPost(i) ==
    /\ pc[i] = "if_post"
    /\ IF post_fixes[i] # <<>>
       THEN results' = [results EXCEPT ![i] = ListAppend(@, PostResult(i))]
       ELSE UNCHANGED results
    /\ Goto(i, "return")
    /\ UNCHANGED <<context, rebreak, applied, calls, fixes, pre_fixes, post_fixes,
                   outcome>>

\* return results
Return(i) ==
    /\ pc[i] = "return"
    /\ outcome' = [outcome EXCEPT ![i] = Returned(results[i])]
    /\ Goto(i, "returned")
    /\ UNCHANGED <<context, rebreak, applied, calls, locals>>

(***************************************************************************)
(* Spec: the reflow subsystem as a black box                               *)
(***************************************************************************)

Segments == [type : {"set_operator"}, raw : Raws, pos_marker : Markers \cup {None}]

Contexts == [segment : Segments, parent_stack : {<<root>> : root \in Roots},
             config : Configs]

InitInvocations ==
    /\ applied = FALSE
    /\ pc = [i \in Invocations |-> "reflow"]
    /\ calls = [i \in Invocations |-> 0]
    /\ fixes = [i \in Invocations |-> <<>>]
    /\ pre_fixes = [i \in Invocations |-> <<>>]
    /\ post_fixes = [i \in Invocations |-> <<>>]
    /\ results = [i \in Invocations |-> <<>>]
    /\ outcome = [i \in Invocations |-> Pending]

Init ==
    /\ context \in Contexts
    /\ rebreak \in {ReflowFailure}
                   \cup {ReflowFixes(fs) : fs \in SeqsUpTo(AllFixes, MaxFixes)}
    /\ InitInvocations

Next ==
    \E i \in Invocations :
        \/ Reflow(i)
        \/ AssertMarker(i)
        \/ PreFixes(i)
        \/ PostFixes(i)
        \/ InitResults(i)
        \/ AppendPre(i)
        \/ AppendPost(i)
        \/ Return(i)

Spec == Init /\ [][Next]_vars

(***************************************************************************)
(* SpecRebreak: the reflow subsystem and the host's application of a fix,  *)
(* as the specification describes them                                     *)
(***************************************************************************)

\* The gaps flanking a set operator at working location loc sit at loc - 1
\* and loc + 1.
InnerLocs == {l \in Locs : l - 1 \in Locs /\ l + 1 \in Locs}

\* computeRebreakEdits(target, treeRoot, config): every edit needed to put a
\* line break on each side of the target; one edit per gap that is not a line
\* break, anchored at that gap; empty when the layout conforms.
computeRebreakEdits(segment, root, config) ==
    LET loc == segment.pos_marker.working_loc
        pre == IF root.before # "\n"
               THEN <<LintFix(PositionMarker(loc - 1))>> ELSE <<>>
        post == IF root.after # "\n"
                THEN <<LintFix(PositionMarker(loc + 1))>> ELSE <<>>
    IN  ReflowFixes(pre \o post)

\* The tree after the host has applied a fix payload: each edit replaces the
\* gap it is anchored at.
RECURSIVE ApplyFixes(_, _, _)
ApplyFixes(root, payload, segment) ==
    IF payload = <<>> THEN root
    ELSE LET fix == Head(payload)
             loc == segment.pos_marker.working_loc
             at == fix.anchor.pos_marker.working_loc
             next == IF at = loc - 1 THEN [root EXCEPT !.before = fix.edit]
                     ELSE IF at = loc + 1 THEN [root EXCEPT !.after = fix.edit]
                     ELSE root
         IN  ApplyFixes(next, Tail(payload), segment)

\* The host applies the fix of the k-th diagnostic invocation i returned and
\* runs the rule again on the resulting tree.
ApplyFix(i, k) ==
    /\ ~applied
    /\ \A j \in Invocations : pc[j] = "returned"
    /\ k \in 1..Len(outcome[i].value)
    /\ LET root == ApplyFixes(context.parent_stack[1], outcome[i].value[k].fixes,
                              context.segment)
       IN  /\ context' = [context EXCEPT !.parent_stack = <<root>>]
           /\ rebreak' = computeRebreakEdits(context.segment, root, context.config)
    /\ applied' = TRUE
    /\ pc' = [j \in Invocations |-> "reflow"]
    /\ calls' = [j \in Invocations |-> 0]
    /\ fixes' = [j \in Invocations |-> <<>>]
    /\ pre_fixes' = [j \in Invocations |-> <<>>]
    /\ post_fixes' = [j \in Invocations |-> <<>>]
    /\ results' = [j \in Invocations |-> <<>>]
    /\ outcome' = [j \in Invocations |-> Pending]

InitRebreak ==
    /\ context \in {c \in Contexts :
                       /\ Truthy(c.segment.pos_marker)
                       /\ c.segment.pos_marker.working_loc \in InnerLocs}
    /\ rebreak = computeRebreakEdits(context.segment, context.parent_stack[1],
                                     context.config)
    /\ InitInvocations

NextRebreak ==
    \/ Next
    \/ \E i \in Invocations : \E k \in 1..MaxFixes : ApplyFix(i, k)

SpecRebreak == InitRebreak /\ [][NextRebreak]_vars

(***************************************************************************)
(* Properties                                                              *)
(***************************************************************************)

\* The target, the edit set E the reflow subsystem answers with, and the two
\* sides of E as the specification defines them.
Target == context.segment
E == rebreak.fixes

HasMarker(fix) == fix.anchor.pos_marker # None
AtTarget(fix) ==
    /\ HasMarker(fix)
    /\ fix.anchor.pos_marker.working_loc = Target.pos_marker.working_loc
StrictlyBefore(fix) ==
    /\ HasMarker(fix)
    /\ fix.anchor.pos_marker.working_loc < Target.pos_marker.working_loc
StrictlyAfter(fix) ==
    /\ HasMarker(fix)
    /\ fix.anchor.pos_marker.working_loc > Target.pos_marker.working_loc

InList(x, list) == \E k \in 1..Len(list) : list[k] = x

IsBeforeDiagnostic(d) ==
    d.description = "Set operators should be surrounded by newlines. Missing newline before set operator "
                        \o Target.raw \o "."
IsAfterDiagnostic(d) ==
    d.description = "Set operators should be surrounded by newlines. Missing newline after set operator "
                        \o Target.raw \o "."

HasReturned(i) == outcome[i].kind = "returned"

\* Invocation i has computed both pre_fixes and post_fixes.
Partitioned(i) == pc[i] \in {"results", "if_pre", "if_post", "return", "returned"}

\* C1: a returned sequence holds a before-diagnostic iff some edit of E is
\* anchored strictly before the target, an after-diagnostic iff some edit is
\* anchored strictly after it, and nothing else: at most one of each kind, at
\* most two in all, and none exactly when neither side has an edit.
C1_DiagnosticsIffSides ==
    \A i \in Invocations :
        HasReturned(i) =>
            LET v == outcome[i].value
                befores == {k \in 1..Len(v) : IsBeforeDiagnostic(v[k])}
                afters == {k \in 1..Len(v) : IsAfterDiagnostic(v[k])}
                pre == {k \in 1..Len(E) : StrictlyBefore(E[k])}
                post == {k \in 1..Len(E) : StrictlyAfter(E[k])}
            IN  /\ (befores # {}) <=> (pre # {})
                /\ (afters # {}) <=> (post # {})
                /\ befores \cup afters = 1..Len(v)
                /\ Cardinality(befores) <= 1
                /\ Cardinality(afters) <= 1
                /\ Len(v) <= 2
                /\ (v = <<>>) <=> (pre = {} /\ post = {})
                /\ (E = <<>>) => (v = <<>>)

\* An invocation has returned the after-diagnostic alone although E holds an
\* edit that is on neither side.
C1_Witness ==
    \E i \in Invocations :
        /\ HasReturned(i)
        /\ Len(outcome[i].value) = 1
        /\ IsAfterDiagnostic(outcome[i].value[1])
        /\ \E k \in 1..Len(E) : ~StrictlyAfter(E[k])

\* C2: every returned diagnostic is anchored at the target and carries all of
\* E, in the order the reflow subsystem gave it; two returned diagnostics carry
\* the same fix.
C2_FullPayloadAtTarget ==
    \A i \in Invocations :
        HasReturned(i) =>
            LET v == outcome[i].value
            IN  /\ \A k \in 1..Len(v) : v[k].anchor = Target /\ v[k].fixes = E
                /\ (Len(v) = 2) => (v[1].fixes = v[2].fixes)

\* Two diagnostics were returned for an E with an edit on each side.
C2_Witness ==
    \E i \in Invocations :
        /\ HasReturned(i)
        /\ Len(outcome[i].value) = 2
        /\ \E k \in 1..Len(E) : StrictlyBefore(E[k])
        /\ \E k \in 1..Len(E) : StrictlyAfter(E[k])

\* C3: in a returned sequence a before-diagnostic stands at an earlier index
\* than an after-diagnostic.
C3_BeforePrecedesAfter ==
    \A i \in Invocations :
        HasReturned(i) =>
            LET v == outcome[i].value
            IN  \A a, b \in 1..Len(v) :
                    (IsBeforeDiagnostic(v[a]) /\ IsAfterDiagnostic(v[b])) => a < b

\* Both kinds of diagnostic were returned by one invocation.
C3_Witness ==
    \E i \in Invocations :
        /\ HasReturned(i)
        /\ \E a \in 1..Len(outcome[i].value) : IsBeforeDiagnostic(outcome[i].value[a])
        /\ \E b \in 1..Len(outcome[i].value) : IsAfterDiagnostic(outcome[i].value[b])

\* C4 as stated: every edit of E is in exactly one of pre_fixes and
\* post_fixes, or in neither and then anchored exactly at the target's
\* position; never in both.
C4_Original ==
    \A i \in Invocations :
        Partitioned(i) =>
            \A k \in 1..Len(fixes[i]) :
                LET e == fixes[i][k]
                    inPre == InList(e, pre_fixes[i])
                    inPost == InList(e, post_fixes[i])
                IN  /\ ~(inPre /\ inPost)
                    /\ (~inPre /\ ~inPost) => AtTarget(e)

\* C4 as amended: every edit of E is in exactly one of pre_fixes and
\* post_fixes, or in neither; it is in neither exactly when its anchor is at
\* the target's position or has no position marker; never in both.
C4_PartitionAmended ==
    \A i \in Invocations :
        Partitioned(i) =>
            \A k \in 1..Len(fixes[i]) :
                LET e == fixes[i][k]
                    inPre == InList(e, pre_fixes[i])
                    inPost == InList(e, post_fixes[i])
                IN  /\ ~(inPre /\ inPost)
                    /\ inPre <=> StrictlyBefore(e)
                    /\ inPost <=> StrictlyAfter(e)
                    /\ (~inPre /\ ~inPost) <=> (AtTarget(e) \/ ~HasMarker(e))

\* The partition was computed for an E that holds an edit anchored at the
\* target's position and an edit on one side.
C4_Witness ==
    \E i \in Invocations :
        /\ Partitioned(i)
        /\ \E k \in 1..Len(fixes[i]) : AtTarget(fixes[i][k])
        /\ pre_fixes[i] \o post_fixes[i] # <<>>

\* C5: with a target that has no position marker an invocation never returns
\* a sequence, and it never gets past the assertion: it ends raising, with the
\* assertion's error whenever the reflow subsystem answered.
C5_NoMarkerFails ==
    \A i \in Invocations :
        (Target.pos_marker = None) =>
            /\ ~HasReturned(i)
            /\ pc[i] \in {"reflow", "assert", "raised"}
            /\ (pc[i] = "raised") =>
                  outcome[i] = Raised(IF rebreak.raises THEN "ReflowError"
                                      ELSE "AssertionError")

\* An invocation on a markerless target has failed although E is empty.
C5_Witness ==
    \E i \in Invocations :
        /\ Target.pos_marker = None
        /\ ~rebreak.raises
        /\ E = <<>>
        /\ outcome[i] = Raised("AssertionError")

\* C8: no step of an invocation changes the context (target, tree root,
\* configuration) or the list E it got from the reflow subsystem, and two
\* invocations on the same context that have returned have returned the same
\* sequence, however their steps interleaved.
C8_PureFunction ==
    /\ [][/\ context' = context
          /\ \A i \in Invocations : (pc[i] # "reflow") => (fixes'[i] = fixes[i])]_vars
    /\ [](\A i, j \in Invocations :
              (HasReturned(i) /\ HasReturned(j)) => (outcome[i] = outcome[j]))

\* Both invocations have returned diagnostics.
C8_Witness ==
    \A i \in Invocations : HasReturned(i) /\ outcome[i].value # <<>>

\* C9: when the reflow subsystem fails, an invocation asks it once, ends
\* raising that failure, never returns a sequence, and computes nothing of its
\* own.
C9_ReflowFailurePropagates ==
    rebreak.raises =>
        \A i \in Invocations :
            /\ ~HasReturned(i)
            /\ pc[i] \in {"reflow", "raised"}
            /\ (pc[i] = "reflow") => (calls[i] = 0)
            /\ (pc[i] = "raised") =>
                  /\ calls[i] = 1
                  /\ outcome[i] = Raised("ReflowError")
            /\ fixes[i] = <<>> /\ pre_fixes[i] = <<>> /\ post_fixes[i] = <<>>
            /\ results[i] = <<>>

\* An invocation on a target with a position marker has ended in the reflow
\* subsystem's failure.
C9_Witness ==
    \E i \in Invocations :
        /\ rebreak.raises
        /\ Target.pos_marker # None
        /\ pc[i] = "raised"

\* C10: an edit whose anchor has no position marker is in neither pre_fixes
\* nor post_fixes, yet is in the fix of every returned diagnostic; and when E
\* is not empty but each of its edits is markerless or anchored at the
\* target's position, the returned sequence is empty.
C10_MarkerlessEdits ==
    \A i \in Invocations :
        HasReturned(i) =>
            LET v == outcome[i].value
            IN  /\ \A k \in 1..Len(E) :
                      ~HasMarker(E[k]) =>
                          /\ ~InList(E[k], pre_fixes[i])
                          /\ ~InList(E[k], post_fixes[i])
                          /\ \A d \in 1..Len(v) : InList(E[k], v[d].fixes)
                /\ (E # <<>> /\ \A k \in 1..Len(E) : ~HasMarker(E[k]) \/ AtTarget(E[k]))
                      => (v = <<>>)

\* A diagnostic was returned whose fix holds a markerless edit.
C10_Witness ==
    \E i \in Invocations :
        /\ HasReturned(i)
        /\ outcome[i].value # <<>>
        /\ \E k \in 1..Len(E) : ~HasMarker(E[k])

\* C6: once the host has applied the fix of any one returned diagnostic, an
\* invocation on the resulting tree returns the empty sequence.
C6_FixIsIdempotent ==
    \A i \in Invocations : (applied /\ HasReturned(i)) => (outcome[i].value = <<>>)

\* The rule has been run again after a fix was applied.
C6_Witness ==
    \E i \in Invocations : applied /\ HasReturned(i)

\* C7: for a set operator with a line break after it and none before it, the
\* returned sequence is exactly one diagnostic, anchored at the target, whose
\* description says the newline is missing before the set operator and names
\* its raw text.
C7_MissingBeforeOnly ==
    \A i \in Invocations :
        (/\ HasReturned(i)
         /\ context.parent_stack[1].before # "\n"
         /\ context.parent_stack[1].after = "\n") =>
            LET v == outcome[i].value
            IN  /\ Len(v) = 1
                /\ v[1].anchor = Target
                /\ v[1].description =
                       "Set operators should be surrounded by newlines. Missing newline before set operator "
                           \o Target.raw \o "."
                /\ ~IsAfterDiagnostic(v[1])

\* An invocation has returned for the layout of `SELECT 'a' AS col UNION ALL`,
\* line break, `SELECT 'b' AS col`.
C7_Witness ==
    \E i \in Invocations :
        /\ HasReturned(i)
        /\ Target.raw = "UNION ALL"
        /\ context.parent_stack[1] = [before |-> " ", after |-> "\n"]

====
